---- MODULE Spec2Model ----
(***************************************************************************)
(* Resource discovery in an unstructured peer-to-peer overlay: the Network *)
(* graph (network.py), the knowledge Cache (utils/cache.py) and the four   *)
(* search strategies (algorithms/*.py).  A strategy call is one atomic     *)
(* step: the code is single-threaded and runs each search to completion.   *)
(***************************************************************************)
EXTENDS Integers, Sequences, FiniteSets, TLC

\* ------------------------------------------------------------------ bounds
\* Largest hop/step budget (ttl) a call is given.
MaxTTL == 2

\* Node identifiers and resource identifiers the inputs are drawn from.
NodeIds == {"A", "B", "C"}
ResourceIds == {"x", "y"}
\* The resource lists a node of the resource mapping may carry.
ResourceLists == {{}, {"x"}}
\* The node pairs an edge list may contain (validators.py rejects self-loops).
EdgePairs == {<<"A", "B">>, <<"B", "C">>, <<"A", "C">>}
TTLs == 0..MaxTTL

VARIABLES
    resources,  \* Network.resources: node -> resources it holds
    edges,      \* Network.edges: the edge list the network was built from
    graph,      \* Network.graph: node -> set of neighbours
    order,      \* iteration order of each neighbour set (fixed per set object)
    cache,      \* the Cache instance shared between calls
    wanted,     \* the resources the callers of this run search for
    entry,      \* the shared cache as the last call found it
    call,       \* the last strategy call: algorithm and arguments
    result,     \* the record that call returned
    probes      \* bookkeeping on the messages of that call

vars == <<resources, edges, graph, order, cache, wanted, entry, call, result, probes>>
netvars == <<resources, edges, graph, order, wanted>>

\* ----------------------------------------------------------------- helpers
\* All orderings of a finite set, as sequences without repetition.
Perms(S) ==
    {s \in [1..Cardinality(S) -> S] : \A i, j \in 1..Cardinality(S) : i # j => s[i] # s[j]}

\* list(some_set): the elements of S in the iteration order lst.
ListOf(S, lst) == SelectSeq(lst, LAMBDA n : n \in S)

EmptyDict == <<>>

\* ----------------------------------------------------------------- Network
\* Network.__init__: adjacency built from the edge list, both directions,
\* then every key of the resource mapping gets an (empty) adjacency set.
BuildGraph(res, edg) ==
    LET ends == {e[1] : e \in edg} \cup {e[2] : e \in edg}
    IN  [n \in ends \cup DOMAIN res |->
            {e[2] : e \in {d \in edg : d[1] = n}} \cup {e[1] : e \in {d \in edg : d[2] = n}}]

get_neighbors(node) == IF node \in DOMAIN graph THEN graph[node] ELSE {}

\* Iterating the neighbour set of node (for ... in neighbors, list(neighbors)).
neighbors_list(node) == IF node \in DOMAIN graph THEN order[node] ELSE <<>>

get_degree(node) == Cardinality(get_neighbors(node))

has_resource(node, resource) ==
    IF node \in DOMAIN resources THEN resource \in resources[node] ELSE FALSE

get_all_nodes == DOMAIN resources

\* ------------------------------------------------------------------- Cache
NewCache == [cache |-> EmptyDict, negative_cache |-> EmptyDict]

\* Mutant: the pair is not discarded from the negative set.
add_keeps_negative(c, node, resource) ==
    LET pos == IF node \notin DOMAIN c.cache THEN c.cache @@ (node :> {}) ELSE c.cache
    IN  [cache |-> [pos EXCEPT ![node] = @ \cup {resource}],
         negative_cache |-> c.negative_cache]

add(c, node, resource) ==
    LET pos == IF node \notin DOMAIN c.cache THEN c.cache @@ (node :> {}) ELSE c.cache
        pos2 == [pos EXCEPT ![node] = @ \cup {resource}]
        neg == IF node \in DOMAIN c.negative_cache
                 THEN [c.negative_cache EXCEPT ![node] = @ \ {resource}]
                 ELSE c.negative_cache
    IN  [cache |-> pos2, negative_cache |-> neg]

\* Mutant: symmetric difference instead of union, a second call removes the
\* pair again.
add_negative_toggle(c, node, resource) ==
    LET neg == IF node \notin DOMAIN c.negative_cache
                 THEN c.negative_cache @@ (node :> {})
                 ELSE c.negative_cache
    IN  [cache |-> c.cache,
         negative_cache |-> [neg EXCEPT ![node] =
                               (@ \ {resource}) \cup ({resource} \ @)]]

\* Mutant: the node is recorded as lacking every resource.
add_negative_node_wide(c, node, resource) ==
    [cache |-> c.cache,
     negative_cache |-> IF node \in DOMAIN c.negative_cache
                          THEN [c.negative_cache EXCEPT ![node] = ResourceIds]
                          ELSE c.negative_cache @@ (node :> ResourceIds)]

add_negative(c, node, resource) ==
    LET neg == IF node \notin DOMAIN c.negative_cache
                 THEN c.negative_cache @@ (node :> {})
                 ELSE c.negative_cache
    IN  [cache |-> c.cache, negative_cache |-> [neg EXCEPT ![node] = @ \cup {resource}]]

has(c, node, resource) ==
    IF node \in DOMAIN c.cache THEN resource \in c.cache[node] ELSE FALSE

has_negative(c, node, resource) ==
    IF node \in DOMAIN c.negative_cache THEN resource \in c.negative_cache[node] ELSE FALSE

\* update_from_network: add(node, resource) for every resource of every node
\* of network.resources.
RECURSIVE add_all(_, _)
add_all(c, pairs) ==
    IF pairs = {} THEN c
    ELSE LET p == CHOOSE q \in pairs : TRUE
         IN  add_all(add(c, p[1], p[2]), pairs \ {p})

\* Mutant: only one resource of each node is recorded.
update_from_network_first_only(c) ==
    add_all(c, {<<n, r>> \in (DOMAIN resources) \X ResourceIds :
                  r \in resources[n] /\ r = CHOOSE q \in resources[n] : TRUE})

update_from_network(c) ==
    add_all(c, {<<n, r>> \in (DOMAIN resources) \X ResourceIds : r \in resources[n]})

\* ---------------------------------------------------------------- flooding
NoProbes ==
    [negative |-> FALSE, unforced |-> FALSE,
     ineligible |-> FALSE, omitted |-> FALSE, omitted_on_find |-> FALSE, sent |-> 0,
     requeued |-> FALSE, reexpanded |-> FALSE]

\* queue.append((node, depth, path)) in either flooding (flooding.py:73,
\* informed_flooding.py:100): note whether the node had been in the queue
\* before.
Enqueue(st, node, item) ==
    [st EXCEPT !.queue = Append(@, item),
               !.probes = [@ EXCEPT !.requeued = @ \/ node \in st.enqueued],
               !.enqueued = @ \cup {node}]

\* A dequeued node passed the depth test and is expanded: note whether it had
\* been expanded before.
Expand(st, node) ==
    [st EXCEPT !.probes = [@ EXCEPT !.reexpanded = @ \/ node \in st.expanded],
               !.expanded = @ \cup {node}]

InvalidStart == [found |-> FALSE, messages |-> 0, nodes_visited |-> 0, path |-> <<>>]
\* Mutant: the start node is not counted as visited.
AtStart_uncounted(start_node) ==
    [found |-> TRUE, messages |-> 0, nodes_visited |-> 0, path |-> <<start_node>>]

AtStart(start_node) ==
    [found |-> TRUE, messages |-> 0, nodes_visited |-> 1, path |-> <<start_node>>]

\* Mutant: the start node is looked up among the keys of the adjacency map.
start_is_unknown_in_graph(start_node) == start_node \notin DOMAIN graph

\* Mutant: a node without neighbours is taken for a node that is not there.
start_is_unknown_or_isolated(start_node) ==
    start_node \notin get_all_nodes \/ get_neighbors(start_node) = {}

\* flooding.py:22 and the same test in the other three strategies
start_is_unknown(start_node) == start_node \notin get_all_nodes

\* Mutant: off by one, a node at depth ttl is still expanded.
flooding_depth_exhausted_late(depth, ttl) == depth > ttl

\* Mutant: off by one, a node at depth ttl - 1 is not expanded.
flooding_depth_exhausted_early(depth, ttl) == depth + 1 >= ttl

\* flooding.py:48
flooding_depth_exhausted(depth, ttl) == depth >= ttl

\* Mutant: the comparison is turned round.
flooding_may_enqueue_flipped(depth, ttl) == depth + 1 > ttl

\* flooding.py:72
flooding_may_enqueue(depth, ttl) == depth + 1 < ttl

\* Mutant: the counter is decremented.
flooding_bill_down(messages) == messages - 1

\* Mutant: a message is billed twice.
flooding_bill_twice(messages) == messages + 2

\* flooding.py:54
flooding_bill(messages) == messages + 1

\* Mutant: the path is not kept per branch, it is the start node and the
\* neighbour.
flooding_new_path_from_start(path, neighbor) == <<path[1], neighbor>>

\* flooding.py:59
flooding_new_path(path, neighbor) == Append(path, neighbor)

\* Mutant: the visited set is not consulted.
flooding_is_new_always(visited, neighbor) == TRUE

\* flooding.py:56
flooding_is_new(visited, neighbor) == neighbor \notin visited

\* flooding.py:53-73, the for loop over the neighbours of the dequeued node.
\* st.ret is <<>> while the loop runs and <<record>> once it has returned.
RECURSIVE flooding_for(_, _, _, _, _, _, _)
flooding_for(st, nbrs, depth, path, resource, ttl, lst) ==
    IF nbrs = <<>> THEN st
    ELSE
      LET neighbor == Head(nbrs)
          st1 == [st EXCEPT !.messages = flooding_bill(@)]
      IN  IF flooding_is_new(st1.visited, neighbor)
            THEN LET st2 == [st1 EXCEPT !.visited = @ \cup {neighbor},
                                        !.nodes_visited = @ + 1]
                     new_path == flooding_new_path(path, neighbor)
                 IN  IF has_resource(neighbor, resource)
                       THEN [st2 EXCEPT !.ret =
                               <<[found |-> TRUE,
                                  messages |-> st2.messages,
                                  nodes_visited |-> st2.nodes_visited,
                                  path |-> new_path,
                                  all_visited |-> ListOf(st2.visited, lst)]>>]
                       ELSE flooding_for(
                               IF flooding_may_enqueue(depth, ttl)
                                 THEN Enqueue(st2, neighbor,
                                              <<neighbor, depth + 1, new_path>>)
                                 ELSE st2,
                               Tail(nbrs), depth, path, resource, ttl, lst)
            ELSE flooding_for(st1, Tail(nbrs), depth, path, resource, ttl, lst)

\* flooding.py:45-81, the while loop over the queue and the final return.
\* The value is [ret, probes]: the record returned and the bookkeeping on the
\* queue.
RECURSIVE flooding_while(_, _, _, _)
flooding_while(st, resource, ttl, lst) ==
    IF st.queue = <<>>
      THEN [ret |-> [found |-> FALSE,
                     messages |-> st.messages,
                     nodes_visited |-> st.nodes_visited,
                     path |-> ListOf(st.visited, lst),
                     all_visited |-> ListOf(st.visited, lst)],
            probes |-> st.probes]
      ELSE
        LET item == Head(st.queue)
            popped == [st EXCEPT !.queue = Tail(@)]
        IN  IF flooding_depth_exhausted(item[2], ttl)
              THEN flooding_while(popped, resource, ttl, lst)
              ELSE LET after == flooding_for(Expand(popped, item[1]),
                                             neighbors_list(item[1]), item[2],
                                             item[3], resource, ttl, lst)
                   IN  IF after.ret # <<>>
                         THEN [ret |-> after.ret[1], probes |-> after.probes]
                         ELSE flooding_while(after, resource, ttl, lst)

\* flooding(network, start_node, resource, ttl) with the bookkeeping on its
\* queue; lst is the iteration order list(visited) happens to use.
flooding_run(start_node, resource, ttl, lst) ==
    IF start_is_unknown(start_node) THEN [ret |-> InvalidStart, probes |-> NoProbes]
    ELSE IF has_resource(start_node, resource)
      THEN [ret |-> AtStart(start_node), probes |-> NoProbes]
    ELSE flooding_while([queue |-> <<<<start_node, 0, <<start_node>>>>>>,
                         visited |-> {start_node},
                         messages |-> 0,
                         nodes_visited |-> 1,
                         probes |-> NoProbes,
                         enqueued |-> {start_node},
                         expanded |-> {},
                         ret |-> <<>>],
                        resource, ttl, lst)

\* flooding(network, start_node, resource, ttl): the record it returns.
flooding(start_node, resource, ttl, lst) == flooding_run(start_node, resource, ttl, lst).ret

\* ------------------------------------------------------- informed flooding
\* Mutant: the cache is not consulted.
informed_flooding_eligible_all(c, n, resource) == TRUE

\* Mutant: a neighbour recorded negative is left out even when it is recorded
\* positive as well.
informed_flooding_eligible_not_negative(c, n, resource) ==
    ~has_negative(c, n, resource)

\* Mutant: only neighbours without any record pass the filter.
informed_flooding_eligible_unknown_only(c, n, resource) ==
    ~has(c, n, resource) /\ ~has_negative(c, n, resource)

\* informed_flooding.py:72-75, the test of the list comprehension
informed_flooding_eligible(c, n, resource) ==
    has(c, n, resource) \/ ~has_negative(c, n, resource)

\* Mutant: off by one, a node at depth ttl is still expanded.
informed_flooding_depth_exhausted_late(depth, ttl) == depth > ttl

\* informed_flooding.py:64
informed_flooding_depth_exhausted(depth, ttl) == depth >= ttl

\* informed_flooding.py:99
informed_flooding_may_enqueue(depth, ttl) == depth + 1 < ttl

\* Mutant: the filter removes the rejected neighbours from the set that
\* get_neighbors returned, which is the network's own set.
informed_flooding_filter_in_place(g, current, filtered_neighbors) ==
    [g EXCEPT ![current] = {filtered_neighbors[i] : i \in 1..Len(filtered_neighbors)}]

\* informed_flooding.py:71-75: what the filtering leaves of the adjacency
\* map g.  get_neighbors hands out the network's own set (network.py:42);
\* the comprehension reads it and builds a new list.
informed_flooding_filter_effect(g, current, filtered_neighbors) == g

\* A message goes to node n while the cache is c: note whether n is recorded
\* negative for the resource at that moment (forced: the informed walk's
\* fallback to the unfiltered neighbour list is in effect).
Probe(p, c, n, resource, forced) ==
    [p EXCEPT !.negative = @ \/ has_negative(c, n, resource),
              !.unforced = @ \/ (has_negative(c, n, resource) /\ ~forced)]

\* The expansion of node current by informed flooding is over: it began with
\* cache c0, sent its messages to the nodes of sent, and either ran through
\* its neighbour list or returned from inside it (returned).  Note whether a
\* message went to a neighbour that c0 records negative and not positive,
\* whether a neighbour that c0 does not record so got no message, and how
\* many messages were sent.
Audit(p, c0, current, sent, resource, returned) ==
    LET barred(n) == has_negative(c0, n, resource) /\ ~has(c0, n, resource)
        missed == \E n \in get_neighbors(current) :
                     ~barred(n) /\ \A i \in 1..Len(sent) : sent[i] # n
    IN  [p EXCEPT !.ineligible = @ \/ \E i \in 1..Len(sent) : barred(sent[i]),
                  !.omitted = @ \/ (~returned /\ missed),
                  !.omitted_on_find = @ \/ (returned /\ missed),
                  !.sent = @ + Len(sent)]

\* Mutant: a message is billed twice.
informed_flooding_bill_twice(messages) == messages + 2

\* informed_flooding.py:78
informed_flooding_bill(messages) == messages + 1

\* Mutant: the test is inverted.
informed_flooding_observe_inverted(c, neighbor, resource) ==
    IF ~has_resource(neighbor, resource)
      THEN add(c, neighbor, resource)
      ELSE add_negative(c, neighbor, resource)

\* informed_flooding.py:86-96: what the probe of a newly visited neighbour
\* writes to the cache.
informed_flooding_observe(c, neighbor, resource) ==
    IF has_resource(neighbor, resource)
      THEN add(c, neighbor, resource)
      ELSE add_negative(c, neighbor, resource)

\* informed_flooding.py:77-100, the for loop over the filtered neighbours.
RECURSIVE informed_flooding_for(_, _, _, _, _, _)
informed_flooding_for(st, nbrs, depth, path, resource, ttl) ==
    IF nbrs = <<>> THEN st
    ELSE
      LET neighbor == Head(nbrs)
          st1 == [st EXCEPT !.messages = informed_flooding_bill(@),
                            !.sent = Append(@, neighbor),
                            !.probes = Probe(@, st.cache, neighbor, resource, FALSE)]
      IN  IF neighbor \notin st1.visited
            THEN LET st2 == [st1 EXCEPT !.visited = @ \cup {neighbor},
                                        !.nodes_visited = @ + 1]
                     new_path == Append(path, neighbor)
                 IN  IF has_resource(neighbor, resource)
                       THEN [st2 EXCEPT !.cache =
                                          informed_flooding_observe(@, neighbor, resource),
                                        !.ret = <<[found |-> TRUE,
                                                   messages |-> st2.messages,
                                                   nodes_visited |-> st2.nodes_visited,
                                                   path |-> new_path]>>]
                       ELSE LET st3 == [st2 EXCEPT !.cache =
                                          informed_flooding_observe(@, neighbor, resource)]
                            IN  informed_flooding_for(
                                  IF informed_flooding_may_enqueue(depth, ttl)
                                    THEN Enqueue(st3, neighbor,
                                                 <<neighbor, depth + 1, new_path>>)
                                    ELSE st3,
                                  Tail(nbrs), depth, path, resource, ttl)
            ELSE informed_flooding_for(st1, Tail(nbrs), depth, path, resource, ttl)

\* informed_flooding.py:61-107, the while loop over the queue and the final
\* return.  The value is [ret, cache, probes, graph]: the record returned, the
\* cache and the network's adjacency map as the call leaves them, and the
\* bookkeeping on its messages.
RECURSIVE informed_flooding_while(_, _, _, _)
informed_flooding_while(st, resource, ttl, lst) ==
    IF st.queue = <<>>
      THEN [ret |-> [found |-> FALSE,
                     messages |-> st.messages,
                     nodes_visited |-> st.nodes_visited,
                     path |-> ListOf(st.visited, lst)],
            cache |-> st.cache,
            probes |-> st.probes,
            graph |-> st.graph]
      ELSE
        LET item == Head(st.queue)
            popped == [st EXCEPT !.queue = Tail(@)]
        IN  IF informed_flooding_depth_exhausted(item[2], ttl)
              THEN informed_flooding_while(popped, resource, ttl, lst)
              ELSE LET filtered_neighbors ==
                         SelectSeq(neighbors_list(item[1]),
                                   LAMBDA n : informed_flooding_eligible(popped.cache, n, resource))
                       filtered == [Expand(popped, item[1]) EXCEPT !.graph =
                                      informed_flooding_filter_effect(@, item[1],
                                                                      filtered_neighbors),
                                                  !.sent = <<>>]
                       looped == informed_flooding_for(filtered, filtered_neighbors, item[2],
                                                       item[3], resource, ttl)
                       after == [looped EXCEPT !.probes =
                                   Audit(@, popped.cache, item[1], looped.sent, resource,
                                         looped.ret # <<>>)]
                   IN  IF after.ret # <<>>
                         THEN [ret |-> after.ret[1], cache |-> after.cache,
                               probes |-> after.probes, graph |-> after.graph]
                         ELSE informed_flooding_while(after, resource, ttl, lst)

\* informed_flooding(network, start_node, resource, ttl, cache) with the cache
\* the caller passed (c); informed_flooding.py:28-107.
informed_flooding_with(c, start_node, resource, ttl, lst) ==
    IF start_is_unknown(start_node)
      THEN [ret |-> InvalidStart, cache |-> c, probes |-> NoProbes, graph |-> graph]
    ELSE IF has(c, start_node, resource)
      THEN [ret |-> AtStart(start_node), cache |-> c, probes |-> NoProbes,
            graph |-> graph]
    ELSE IF has_resource(start_node, resource)
      THEN [ret |-> AtStart(start_node), cache |-> add(c, start_node, resource),
            probes |-> NoProbes, graph |-> graph]
    ELSE informed_flooding_while([queue |-> <<<<start_node, 0, <<start_node>>>>>>,
                                  visited |-> {start_node},
                                  messages |-> 0,
                                  nodes_visited |-> 1,
                                  cache |-> c,
                                  probes |-> NoProbes,
                                  enqueued |-> {start_node},
                                  expanded |-> {},
                                  sent |-> <<>>,
                                  graph |-> graph,
                                  ret |-> <<>>],
                                 resource, ttl, lst)

\* informed_flooding.py:24-26: with no cache passed, a new one is filled from
\* the network.
informed_flooding(given, c, start_node, resource, ttl, lst) ==
    informed_flooding_with(IF given THEN c ELSE update_from_network(NewCache),
                           start_node, resource, ttl, lst)

\* ------------------------------------------------------------- random walk
\* random.choice(seq) with the draw r of the random source.
choice(seq, r) == seq[(r % Len(seq)) + 1]

\* Mutant: off by one, a step is taken with the budget used up.
random_walk_has_budget_late(steps, ttl) == steps <= ttl

\* random_walk.py:46
random_walk_has_budget(steps, ttl) == steps < ttl

\* Mutant: the path is extended only by nodes not visited before.
random_walk_step_new_only(st, next_node) ==
    [current |-> next_node,
     path |-> IF next_node \in st.visited THEN st.path ELSE Append(st.path, next_node),
     visited |-> st.visited \cup {next_node},
     messages |-> st.messages + 1,
     steps |-> st.steps + 1]

\* random_walk.py:54-61: one step to next_node.
random_walk_step(st, next_node) ==
    [current |-> next_node,
     path |-> Append(st.path, next_node),
     visited |-> st.visited \cup {next_node},
     messages |-> st.messages + 1,
     steps |-> st.steps + 1]

\* random_walk.py:46-77, the loop and the final return; rnd is the sequence of
\* draws of the random source.
RECURSIVE random_walk_while(_, _, _, _)
random_walk_while(st, resource, ttl, rnd) ==
    LET neighbors == neighbors_list(st.current)
    IN  IF ~random_walk_has_budget(st.steps, ttl) \/ neighbors = <<>>
          THEN [found |-> FALSE, messages |-> st.messages,
                nodes_visited |-> Cardinality(st.visited), path |-> st.path]
          ELSE
            LET next_node == choice(neighbors, rnd[st.steps + 1])
                st1 == random_walk_step(st, next_node)
            IN  IF has_resource(next_node, resource)
                  THEN [found |-> TRUE, messages |-> st1.messages,
                        nodes_visited |-> Cardinality(st1.visited), path |-> st1.path]
                  ELSE random_walk_while(st1, resource, ttl, rnd)

random_walk(start_node, resource, ttl, rnd) ==
    IF start_is_unknown(start_node) THEN InvalidStart
    ELSE IF has_resource(start_node, resource) THEN AtStart(start_node)
    ELSE random_walk_while([current |-> start_node,
                            path |-> <<start_node>>,
                            visited |-> {start_node},
                            messages |-> 0,
                            steps |-> 0],
                           resource, ttl, rnd)

\* ---------------------------------------------------- informed random walk
\* Mutant: nodes recorded positive are not let through.
informed_random_walk_eligible_unknown_only(c, n, resource) ==
    ~has(c, n, resource) /\ ~has_negative(c, n, resource)

\* informed_random_walk.py:72-75, the test of the list comprehension
informed_random_walk_eligible(c, n, resource) ==
    has(c, n, resource) \/ ~has_negative(c, n, resource)

\* informed_random_walk.py:62
informed_random_walk_has_budget(steps, ttl) == steps < ttl

\* informed_random_walk.py:72-79: the filtered neighbours, or all of them when
\* the filter leaves none.
informed_random_walk_candidates(c, neighbors, resource) ==
    LET candidate_neighbors ==
          SelectSeq(neighbors, LAMBDA n : informed_random_walk_eligible(c, n, resource))
    IN  IF candidate_neighbors = <<>> THEN neighbors ELSE candidate_neighbors

\* A step of the informed walk goes to next_node while the cache is c and the
\* neighbours of the current node are neighbors: note whether next_node is
\* recorded negative and not positive although some neighbour is not.
AuditStep(p, c, neighbors, next_node, resource) ==
    LET barred(n) == has_negative(c, n, resource) /\ ~has(c, n, resource)
    IN  [p EXCEPT !.ineligible =
           @ \/ (barred(next_node) /\ \E i \in 1..Len(neighbors) : ~barred(neighbors[i])),
                  !.sent = @ + 1]

\* informed_random_walk.py:62-110, the loop and the final return.
RECURSIVE informed_random_walk_while(_, _, _, _)
informed_random_walk_while(st, resource, ttl, rnd) ==
    LET neighbors == neighbors_list(st.current)
    IN  IF ~informed_random_walk_has_budget(st.steps, ttl) \/ neighbors = <<>>
          THEN [ret |-> [found |-> FALSE, messages |-> st.messages,
                         nodes_visited |-> Cardinality(st.visited), path |-> st.path],
                cache |-> st.cache,
                probes |-> st.probes]
          ELSE
            LET candidate_neighbors ==
                  informed_random_walk_candidates(st.cache, neighbors, resource)
                forced == \A i \in 1..Len(neighbors) :
                            ~informed_random_walk_eligible(st.cache, neighbors[i], resource)
                next_node == choice(candidate_neighbors, rnd[st.steps + 1])
                st1 == [st EXCEPT !.current = next_node,
                                  !.path = Append(@, next_node),
                                  !.visited = @ \cup {next_node},
                                  !.messages = @ + 1,
                                  !.steps = @ + 1,
                                  !.probes = AuditStep(
                                      Probe(@, st.cache, next_node, resource, forced),
                                      st.cache, neighbors, next_node, resource)]
            IN  IF has_resource(next_node, resource)
                  THEN [ret |-> [found |-> TRUE, messages |-> st1.messages,
                                 nodes_visited |-> Cardinality(st1.visited),
                                 path |-> st1.path],
                        cache |-> add(st1.cache, next_node, resource),
                        probes |-> st1.probes]
                  ELSE informed_random_walk_while(
                         [st1 EXCEPT !.cache = add_negative(@, next_node, resource)],
                         resource, ttl, rnd)

\* informed_random_walk(network, start_node, resource, ttl, cache) with the
\* cache the caller passed (c); informed_random_walk.py:29-110.
informed_random_walk_with(c, start_node, resource, ttl, rnd) ==
    IF start_is_unknown(start_node)
      THEN [ret |-> InvalidStart, cache |-> c, probes |-> NoProbes]
    ELSE IF has(c, start_node, resource)
      THEN [ret |-> AtStart(start_node), cache |-> c, probes |-> NoProbes]
    ELSE IF has_resource(start_node, resource)
      THEN [ret |-> AtStart(start_node), cache |-> add(c, start_node, resource),
            probes |-> NoProbes]
    ELSE informed_random_walk_while([current |-> start_node,
                                     path |-> <<start_node>>,
                                     visited |-> {start_node},
                                     messages |-> 0,
                                     steps |-> 0,
                                     cache |-> c,
                                     probes |-> NoProbes],
                                    resource, ttl, rnd)

\* informed_random_walk.py:25-27: with no cache passed, a new one is filled
\* from the network.
informed_random_walk(given, c, start_node, resource, ttl, rnd) ==
    informed_random_walk_with(IF given THEN c ELSE update_from_network(NewCache),
                              start_node, resource, ttl, rnd)

\* ---------------------------------------------------------------- run_search
\* The outcome of run_search: whether it raised, the strategy function it
\* called ("none" if it called none) and the record it returned (<<>> if it
\* returned none).
Returned(ran, ret) == [raised |-> FALSE, ran |-> ran, ret |-> ret]

\* main.py:73
UnknownAlgorithm == [raised |-> TRUE, ran |-> "none", ret |-> <<>>]

\* Mutant: an identifier that is not recognised falls back to flooding.
run_search_default_flooding(algorithm, start_node, resource, ttl, lst, rnd) ==
    IF algorithm = "informed_flooding"
      THEN Returned("informed_flooding",
                    informed_flooding_with(update_from_network(NewCache),
                                           start_node, resource, ttl, lst).ret)
    ELSE IF algorithm = "random_walk"
      THEN Returned("random_walk", random_walk(start_node, resource, ttl, rnd))
    ELSE IF algorithm = "informed_random_walk"
      THEN Returned("informed_random_walk",
                    informed_random_walk_with(update_from_network(NewCache),
                                              start_node, resource, ttl, rnd).ret)
    ELSE Returned("flooding", flooding(start_node, resource, ttl, lst))

\* run_search(network, algorithm, start_node, resource, ttl), main.py:45-73;
\* lst and rnd are the iteration order of list(visited) and the draws of the
\* random source that the strategy called happens to see.
run_search(algorithm, start_node, resource, ttl, lst, rnd) ==
    IF algorithm = "flooding"
      THEN Returned("flooding", flooding(start_node, resource, ttl, lst))
    ELSE IF algorithm = "informed_flooding"
      THEN Returned("informed_flooding",
                    informed_flooding_with(update_from_network(NewCache),
                                           start_node, resource, ttl, lst).ret)
    ELSE IF algorithm = "random_walk"
      THEN Returned("random_walk", random_walk(start_node, resource, ttl, rnd))
    ELSE IF algorithm = "informed_random_walk"
      THEN Returned("informed_random_walk",
                    informed_random_walk_with(update_from_network(NewCache),
                                              start_node, resource, ttl, rnd).ret)
    ELSE UnknownAlgorithm

\* ------------------------------------------------------------------ system
\* No call is in progress and no record is held.
NoCall == [algorithm |-> "none", start_node |-> "A", resource |-> "x", ttl |-> 0,
           cache_given |-> FALSE]

\* The iteration orders the neighbour sets of graph g may have.
Orders(g) ==
    {o \in [DOMAIN g -> UNION {Perms(g[n]) : n \in DOMAIN g}] :
        \A n \in DOMAIN g : o[n] \in Perms(g[n])}

\* The draws of the random source during one walk.
Draws == [1..MaxTTL -> 0..(Cardinality(NodeIds) - 2)]

\* Network(num_nodes, resources, edges) for a resource mapping of maps and an
\* edge list of edgelists, a new Cache, callers that search for the resources
\* w, and no call made yet.
InitWith(maps, edgelists, w) ==
    /\ resources \in maps
    /\ edges \in edgelists
    /\ graph = BuildGraph(resources, edges)
    /\ order \in Orders(graph)
    /\ cache = NewCache
    /\ wanted = w
    /\ entry = NewCache
    /\ call = NoCall
    /\ result = InvalidStart
    /\ probes = NoProbes

\* Any resource mapping over any subset of the nodes and any edge list: the
\* constructor checks neither, so an edge may name a node that the resource
\* mapping does not.
Init ==
    InitWith(UNION {[K -> ResourceLists] : K \in SUBSET NodeIds}, SUBSET EdgePairs, {"x"})

\* Callers that search for both resources, on the networks over a line
\* A - B - C in which A and B are keys of the resource mapping and C may be.
InitTwo ==
    InitWith(UNION {[K -> {{}, {"x"}, {"y"}}] : K \in {{"A", "B"}, NodeIds}},
             {{<<"A", "B">>, <<"B", "C">>}}, ResourceIds)

\* The 4-node ring A - B - C - D - A of the worked scenarios, with resources
\* {A: [x], B: [], C: [y], D: []}; the callers search for y, which C holds,
\* and for z, which no node holds.
RingResources == ("A" :> {"x"}) @@ ("B" :> {}) @@ ("C" :> {"y"}) @@ ("D" :> {})
RingEdges == {<<"A", "B">>, <<"B", "C">>, <<"C", "D">>, <<"D", "A">>}
InitRing == InitWith({RingResources}, {RingEdges}, {"y", "z"})

\* The start nodes callers try on the network at hand, and the budgets the
\* scenarios go up to.
Universe == NodeIds \cup DOMAIN graph
ScenarioTTLs == 0..(MaxTTL + 1)

Idle == call.algorithm = "none"

CallOf(alg, s, r, t, given) ==
    [algorithm |-> alg, start_node |-> s, resource |-> r, ttl |-> t, cache_given |-> given]

Flooding ==
    /\ Idle
    /\ \E s \in NodeIds, r \in wanted, t \in TTLs, lst \in Perms(NodeIds) :
        LET out == flooding_run(s, r, t, lst)
        IN  /\ call' = CallOf("flooding", s, r, t, FALSE)
            /\ result' = out.ret
            /\ probes' = out.probes
    /\ entry' = cache
    /\ UNCHANGED <<netvars, cache>>

\* flooding on the network at hand, the ring included.
FloodingScenario ==
    /\ Idle
    /\ \E s \in Universe, r \in wanted, t \in ScenarioTTLs, lst \in Perms(Universe) :
        LET out == flooding_run(s, r, t, lst)
        IN  /\ call' = CallOf("flooding", s, r, t, FALSE)
            /\ result' = out.ret
            /\ probes' = out.probes
    /\ entry' = cache
    /\ UNCHANGED <<netvars, cache>>

InformedFlooding ==
    /\ Idle
    /\ \E s \in NodeIds, r \in wanted, t \in TTLs, lst \in Perms(NodeIds),
          given \in BOOLEAN :
        LET out == informed_flooding(given, cache, s, r, t, lst)
        IN  /\ call' = CallOf("informed_flooding", s, r, t, given)
            /\ result' = out.ret
            /\ probes' = out.probes
            /\ entry' = cache
            /\ cache' = IF given THEN out.cache ELSE cache
            /\ graph' = out.graph
            /\ UNCHANGED <<resources, edges, order, wanted>>

RandomWalk ==
    /\ Idle
    /\ \E s \in NodeIds, r \in wanted, t \in TTLs, rnd \in Draws :
        /\ call' = CallOf("random_walk", s, r, t, FALSE)
        /\ result' = random_walk(s, r, t, rnd)
        /\ probes' = NoProbes
        /\ entry' = cache
        /\ UNCHANGED <<netvars, cache>>

InformedRandomWalk ==
    /\ Idle
    /\ \E s \in NodeIds, r \in wanted, t \in TTLs, rnd \in Draws,
          given \in BOOLEAN :
        LET out == informed_random_walk(given, cache, s, r, t, rnd)
        IN  /\ call' = CallOf("informed_random_walk", s, r, t, given)
            /\ result' = out.ret
            /\ probes' = out.probes
            /\ entry' = cache
            /\ cache' = IF given THEN out.cache ELSE cache
            /\ UNCHANGED netvars

\* The caller is done with the record and moves on to its next call.
Return ==
    /\ ~Idle
    /\ call' = NoCall
    /\ result' = InvalidStart
    /\ probes' = NoProbes
    /\ entry' = NewCache
    /\ UNCHANGED <<netvars, cache>>

\* cache.update_from_network(network) on the shared cache, as the callers do
\* before an informed search (main.py:63-64).
SeedCache ==
    /\ Idle
    /\ cache' = update_from_network(cache)
    /\ UNCHANGED <<netvars, entry, call, result, probes>>

\* cache = Cache(): the caller starts over with an empty cache.
FreshCache ==
    /\ Idle
    /\ cache' = NewCache
    /\ UNCHANGED <<netvars, entry, call, result, probes>>

Next ==
    \/ Flooding
    \/ InformedFlooding
    \/ RandomWalk
    \/ InformedRandomWalk
    \/ Return
    \/ SeedCache
    \/ FreshCache

Spec == Init /\ [][Next]_vars

SpecTwo == InitTwo /\ [][Next]_vars

\* Networks over a line A - B - C or a triangle in which every node is a key
\* of the resource mapping, for callers that supply caches of their own making.
InitSupplied ==
    InitWith([NodeIds -> ResourceLists],
             {{<<"A", "B">>, <<"B", "C">>}, EdgePairs}, {"x"})

\* The caller writes a record of its own into the cache it is going to pass:
\* cache.add or cache.add_negative for any node, true of the network or not.
SupplyRecord ==
    /\ Idle
    /\ \E n \in DOMAIN graph, r \in wanted :
        \/ cache' = add(cache, n, r)
        \/ cache' = add_negative(cache, n, r)
    /\ UNCHANGED <<netvars, entry, call, result, probes>>

NextSupplied ==
    \/ SupplyRecord
    \/ Flooding
    \/ InformedFlooding
    \/ RandomWalk
    \/ InformedRandomWalk
    \/ Return

\* The four strategies with caches of any content.
SpecSupplied == InitSupplied /\ [][NextSupplied]_vars

\* The draws of the random source during one walk of a scenario.
ScenarioDraws == [1..(MaxTTL + 1) -> 0..1]

\* The other three strategies on the network at hand, with the budgets of
\* the scenarios.
InformedFloodingScenario ==
    /\ Idle
    /\ \E s \in Universe, r \in wanted, t \in ScenarioTTLs, lst \in Perms(Universe),
          given \in BOOLEAN :
        LET out == informed_flooding(given, cache, s, r, t, lst)
        IN  /\ call' = CallOf("informed_flooding", s, r, t, given)
            /\ result' = out.ret
            /\ probes' = out.probes
            /\ cache' = IF given THEN out.cache ELSE cache
            /\ graph' = out.graph
    /\ entry' = cache
    /\ UNCHANGED <<resources, edges, order, wanted>>

RandomWalkScenario ==
    /\ Idle
    /\ \E s \in Universe, r \in wanted, t \in ScenarioTTLs, rnd \in ScenarioDraws :
        /\ call' = CallOf("random_walk", s, r, t, FALSE)
        /\ result' = random_walk(s, r, t, rnd)
    /\ probes' = NoProbes
    /\ entry' = cache
    /\ UNCHANGED <<netvars, cache>>

InformedRandomWalkScenario ==
    /\ Idle
    /\ \E s \in Universe, r \in wanted, t \in ScenarioTTLs, rnd \in ScenarioDraws,
          given \in BOOLEAN :
        LET out == informed_random_walk(given, cache, s, r, t, rnd)
        IN  /\ call' = CallOf("informed_random_walk", s, r, t, given)
            /\ result' = out.ret
            /\ probes' = out.probes
            /\ cache' = IF given THEN out.cache ELSE cache
    /\ entry' = cache
    /\ UNCHANGED netvars

NextCycles ==
    \/ FloodingScenario
    \/ InformedFloodingScenario
    \/ RandomWalkScenario
    \/ InformedRandomWalkScenario
    \/ Return

\* The networks with a cycle: the triangle with any resource mapping, for
\* callers that search for x, and the ring, for callers that search for z,
\* which no node holds, so that no search ends early.
InitCycles ==
    \/ InitWith([NodeIds -> ResourceLists], {EdgePairs}, {"x"})
    \/ InitWith({RingResources}, {RingEdges}, {"z"})

\* The four strategies with budgets that reach round a cycle.
SpecCycles == InitCycles /\ [][NextCycles]_vars

NextFlooding ==
    \/ FloodingScenario
    \/ Return

\* Flooding alone, on every network of Init and on the ring.
SpecFlooding == (Init \/ InitRing) /\ [][NextFlooding]_vars

\* ---------------------------------------------------- the Cache on its own
\* A caller that works on the cache directly: networks of two nodes without
\* edges, any resource lists.
InitCache ==
    InitWith([{"A", "B"} -> SUBSET ResourceIds], {{}}, ResourceIds)

\* cache.add(n, r)
CacheAdd ==
    /\ Idle
    /\ \E n \in DOMAIN graph, r \in ResourceIds :
        /\ call' = CallOf("add", n, r, 0, TRUE)
        /\ cache' = add(cache, n, r)
    /\ entry' = cache
    /\ UNCHANGED <<netvars, result, probes>>

\* cache.add_negative(n, r)
CacheAddNegative ==
    /\ Idle
    /\ \E n \in DOMAIN graph, r \in ResourceIds :
        /\ call' = CallOf("add_negative", n, r, 0, TRUE)
        /\ cache' = add_negative(cache, n, r)
    /\ entry' = cache
    /\ UNCHANGED <<netvars, result, probes>>

\* cache.update_from_network(network)
CacheUpdateFromNetwork ==
    /\ Idle
    /\ call' = CallOf("update_from_network", "A", "x", 0, TRUE)
    /\ cache' = update_from_network(cache)
    /\ entry' = cache
    /\ UNCHANGED <<netvars, result, probes>>

NextCache ==
    \/ CacheAdd
    \/ CacheAddNegative
    \/ CacheUpdateFromNetwork
    \/ Return

SpecCache == InitCache /\ [][NextCache]_vars

\* The identifiers callers hand to run_search: the four it knows and two it
\* does not.
AlgorithmIds ==
    {"flooding", "informed_flooding", "random_walk", "informed_random_walk",
     "dfs", "Flooding"}

\* A caller runs a search through run_search; result holds the outcome.
RunSearch ==
    /\ Idle
    /\ \E a \in AlgorithmIds, s \in NodeIds, r \in wanted, t \in TTLs,
          lst \in Perms(NodeIds), rnd \in Draws :
        /\ call' = CallOf(a, s, r, t, FALSE)
        /\ result' = run_search(a, s, r, t, lst, rnd)
    /\ probes' = NoProbes
    /\ entry' = cache
    /\ UNCHANGED <<netvars, cache>>

NextRun ==
    \/ RunSearch
    \/ Return

SpecRun == Init /\ [][NextRun]_vars

\* ------------------------------------------------------------ properties
Strategies == {"flooding", "informed_flooding", "random_walk", "informed_random_walk"}

\* Node n holds resource r according to the resource mapping.
Holds(n, r) == n \in DOMAIN resources /\ r \in resources[n]

StartKnown == call.start_node \in DOMAIN resources

\* The nodes at hop distance <= k from node s in the adjacency map.
RECURSIVE Ball(_, _)
Ball(s, k) ==
    IF k = 0 THEN {s}
    ELSE LET b == Ball(s, k - 1)
         IN  b \cup UNION {graph[n] : n \in b \cap DOMAIN graph}

\* C1: a call of any of the four strategies whose start node is not in
\* all_nodes() returns exactly found=false, messages=0, nodes_visited=0,
\* path=[].
C1_UnknownStartRecord ==
    (call.algorithm \in Strategies /\ ~StartKnown)
        => result = [found |-> FALSE, messages |-> 0, nodes_visited |-> 0, path |-> <<>>]

\* A strategy was called from a node that has neighbours but no entry in the
\* resource mapping, with budget to move.
C1_Witness ==
    /\ call.algorithm = "informed_flooding"
    /\ ~StartKnown
    /\ call.start_node \in DOMAIN graph
    /\ graph[call.start_node] # {}
    /\ call.ttl >= 1
    /\ result.nodes_visited = 0

\* C2: a call of any of the four strategies whose start node is in the graph
\* and holds the resource returns found=true, messages=0, nodes_visited=1,
\* path=[start]: no neighbour is probed.
C2_ResourceAtStartRecord ==
    (call.algorithm \in Strategies /\ Holds(call.start_node, call.resource))
        => result = [found |-> TRUE, messages |-> 0, nodes_visited |-> 1,
                     path |-> <<call.start_node>>]

\* A walk was started, with budget, on a node that holds the resource and has
\* neighbours.
C2_Witness ==
    /\ call.algorithm = "random_walk"
    /\ Holds(call.start_node, call.resource)
    /\ get_neighbors(call.start_node) # {}
    /\ call.ttl >= 1
    /\ result.found

\* C3: for a start node of the graph, flooding returns found=true exactly
\* when some node at hop distance <= ttl from the start holds the resource.
C3_FloodingFindsWithinTTL ==
    (call.algorithm = "flooding" /\ StartKnown)
        => (result.found <=>
              \E n \in Ball(call.start_node, call.ttl) : Holds(n, call.resource))

\* Flooding found the resource two hops away.
C3_Witness ==
    /\ call.algorithm = "flooding"
    /\ result.found
    /\ Len(result.path) = 3

\* Flooding missed a resource that a node beyond the hop budget holds.
C3_WitnessBeyond ==
    /\ call.algorithm = "flooding"
    /\ StartKnown
    /\ ~result.found
    /\ call.ttl = 1
    /\ \E n \in Ball(call.start_node, 2) : Holds(n, call.resource)

\* C4 as claimed: flooding and informed flooding never report more visited
\* nodes than all_nodes() has members.
C4_VisitedWithinAllNodes ==
    call.algorithm \in {"flooding", "informed_flooding"}
        => result.nodes_visited <= Cardinality(get_all_nodes)

\* C5: with the graph, the start node, the resource, the enumeration order
\* and the cache at entry fixed, the messages of flooding and of informed
\* flooding do not decrease when the ttl grows.
C5_MessagesMonotoneInTTL ==
    /\ call.algorithm = "flooding" =>
         \A t \in TTLs :
            LET other == flooding(call.start_node, call.resource, t, <<>>).messages
            IN  /\ t <= call.ttl => other <= result.messages
                /\ t >= call.ttl => other >= result.messages
    /\ call.algorithm = "informed_flooding" =>
         \A t \in TTLs :
            LET other == informed_flooding(call.cache_given, entry, call.start_node,
                                           call.resource, t, <<>>).ret.messages
            IN  /\ t <= call.ttl => other <= result.messages
                /\ t >= call.ttl => other >= result.messages

\* Informed flooding on a cache that earlier searches wrote to sent strictly
\* more messages than the same call with a smaller ttl would have.
C5_Witness ==
    /\ call.algorithm = "informed_flooding"
    /\ call.cache_given
    /\ entry # NewCache
    /\ call.ttl = 2
    /\ result.messages >
         informed_flooding(TRUE, entry, call.start_node, call.resource, 1, <<>>).ret.messages
    /\ informed_flooding(TRUE, entry, call.start_node, call.resource, 1, <<>>).ret.messages > 0

\* C6 as claimed: every record of a random walk or an informed random walk
\* has len(path) - 1 = messages, also when the start node is not in the graph.
C6_PathLengthIsMessages ==
    call.algorithm \in {"random_walk", "informed_random_walk"}
        => Len(result.path) - 1 = result.messages

\* C6 amended: len(path) - 1 = messages when the start node is in the graph;
\* when it is not, path is empty and messages is 0.
C6_PathLengthIsMessagesKnownStart ==
    call.algorithm \in {"random_walk", "informed_random_walk"}
        => IF StartKnown
             THEN Len(result.path) - 1 = result.messages
             ELSE result.path = <<>> /\ result.messages = 0

\* A walk came back to a node it had visited before.
C6_Witness ==
    /\ call.algorithm = "random_walk"
    /\ StartKnown
    /\ result.messages = 2
    /\ result.nodes_visited = 2

\* C7: every record of a random walk or an informed random walk has
\* messages <= ttl.
C7_MessagesWithinTTL ==
    call.algorithm \in {"random_walk", "informed_random_walk"}
        => result.messages <= call.ttl

\* An informed walk used its whole budget and fell back to the unfiltered
\* neighbours on the way.
C7_Witness ==
    /\ call.algorithm = "informed_random_walk"
    /\ result.messages = call.ttl
    /\ call.ttl >= 1
    /\ probes.negative

\* A plain walk used its whole budget.
C7_WitnessPlain ==
    /\ call.algorithm = "random_walk"
    /\ result.messages = call.ttl
    /\ call.ttl = MaxTTL

\* C8: on a cache that was created empty or filled from the graph and has
\* since been written only by informed searches on that graph, every pair
\* recorded negative names a node that lacks the resource and every pair
\* recorded positive names a node that holds it.
C8_CacheTellsTheTruth ==
    /\ \A n \in DOMAIN cache.negative_cache :
          \A r \in cache.negative_cache[n] : ~Holds(n, r)
    /\ \A n \in DOMAIN cache.cache :
          \A r \in cache.cache[n] : Holds(n, r)

\* The shared cache holds a negative and a positive record written by
\* informed searches for two different resources.
C8_Witness ==
    /\ call.algorithm = "informed_random_walk"
    /\ call.cache_given
    /\ \E n, m \in NodeIds, r, q \in ResourceIds :
          /\ r # q
          /\ has_negative(cache, n, r) /\ ~has_negative(entry, n, r)
          /\ has(cache, m, q)
          /\ has_negative(cache, m, r)

\* C9 as claimed: no call of informed_flooding or informed_random_walk sends
\* a message to a node that is recorded negative for the resource at that
\* moment.
C9_NoMessageToNegativeNode ==
    call.algorithm \in {"informed_flooding", "informed_random_walk"} => ~probes.negative

\* C9 amended: informed_flooding sends no message to a node recorded
\* negative; informed_random_walk steps to such a node only when no
\* neighbour of the current node passes the filter (the fallback).
C9_NoUnforcedMessageToNegativeNode ==
    /\ call.algorithm = "informed_flooding" => ~probes.negative
    /\ call.algorithm = "informed_random_walk" => ~probes.unforced

\* Informed flooding on the shared cache left out a neighbour that an
\* earlier search had recorded negative, and still sent messages.
C9_Witness ==
    /\ call.algorithm = "informed_flooding"
    /\ call.cache_given
    /\ result.messages > 0
    /\ result.messages < flooding(call.start_node, call.resource, call.ttl, <<>>).messages
    /\ \E n \in NodeIds : has_negative(entry, n, call.resource)

\* An informed walk had a neighbour recorded negative and one that was not,
\* and stepped to the latter.
C9_WitnessWalk ==
    /\ call.algorithm = "informed_random_walk"
    /\ call.cache_given
    /\ result.messages = 1
    /\ \E n \in get_neighbors(call.start_node) : has_negative(entry, n, call.resource)
    /\ ~probes.negative

\* C10 as claimed: after any sequence of add, add_negative and
\* update_from_network on a cache that was created empty, no (node, resource)
\* pair is in the positive set and in the negative set at once.
C10_NeverPositiveAndNegative ==
    \A n \in NodeIds, r \in ResourceIds :
        ~(has(cache, n, r) /\ has_negative(cache, n, r))

\* The two caches answer has and has_negative alike for every pair.
SameBeliefs(c1, c2) ==
    \A n \in NodeIds, r \in ResourceIds :
        /\ has(c1, n, r) = has(c2, n, r)
        /\ has_negative(c1, n, r) = has_negative(c2, n, r)

\* C11 as claimed: add_negative(node, resource) on a cache that holds the
\* positive record of the pair changes neither set, and has_negative of the
\* pair stays false.
C11_AddNegativeIsNoOpOnPositive ==
    (call.algorithm = "add_negative" /\ has(entry, call.start_node, call.resource))
        => /\ cache = entry
           /\ ~has_negative(cache, call.start_node, call.resource)

\* C12: after add(node, resource) from any cache state, has of the pair is
\* true, has_negative of the pair is false, and has and has_negative of every
\* other pair answer as they did before the call.
C12_AddSetsPairAndFramesOthers ==
    call.algorithm = "add" =>
        /\ has(cache, call.start_node, call.resource)
        /\ ~has_negative(cache, call.start_node, call.resource)
        /\ \A n \in NodeIds, r \in ResourceIds :
              <<n, r>> # <<call.start_node, call.resource>> =>
                  /\ has(cache, n, r) = has(entry, n, r)
                  /\ has_negative(cache, n, r) = has_negative(entry, n, r)

\* add turned a negative record of the pair into a positive one, while
\* another pair kept its negative record.
C12_Witness ==
    /\ call.algorithm = "add"
    /\ has_negative(entry, call.start_node, call.resource)
    /\ ~has(entry, call.start_node, call.resource)
    /\ \E n \in NodeIds, r \in ResourceIds :
          /\ <<n, r>> # <<call.start_node, call.resource>>
          /\ has_negative(cache, n, r)

\* C13: a second add with the arguments of the add that has just returned
\* leaves has and has_negative of every pair as the first call left them;
\* likewise a second add_negative after an add_negative.
C13_RecordingIsIdempotent ==
    /\ call.algorithm = "add" =>
          SameBeliefs(add(cache, call.start_node, call.resource), cache)
    /\ call.algorithm = "add_negative" =>
          SameBeliefs(add_negative(cache, call.start_node, call.resource), cache)

\* An add_negative that changed the cache: the pair was not recorded
\* negative before the call and is after it.
C13_Witness ==
    /\ call.algorithm = "add_negative"
    /\ ~has_negative(entry, call.start_node, call.resource)
    /\ has_negative(cache, call.start_node, call.resource)

\* An add that changed the cache: the pair was recorded negative before the
\* call and is recorded positive after it.
C13_WitnessAdd ==
    /\ call.algorithm = "add"
    /\ has_negative(entry, call.start_node, call.resource)
    /\ has(cache, call.start_node, call.resource)
    /\ cache # entry

\* C14: after update_from_network on an empty cache, has(n, r) is true
\* exactly when the network's has_resource(n, r) is, and has_negative is
\* false for every pair.
C14_SeedMirrorsNetwork ==
    (call.algorithm = "update_from_network" /\ entry = NewCache) =>
        \A n \in NodeIds, r \in ResourceIds :
            /\ has(cache, n, r) = has_resource(n, r)
            /\ ~has_negative(cache, n, r)

\* An empty cache was seeded from a network in which one node holds two
\* resources and another holds none.
C14_Witness ==
    /\ call.algorithm = "update_from_network"
    /\ entry = NewCache
    /\ \E n \in DOMAIN resources : resources[n] = ResourceIds
    /\ \E n \in DOMAIN resources : resources[n] = {}

AdjacencySymmetric ==
    \A a \in NodeIds, b \in NodeIds :
        (b \in get_neighbors(a)) = (a \in get_neighbors(b))

\* C16 as claimed: for the network built from any resource mapping and edge
\* list, every node of an edge and every key of the resource mapping is in
\* get_all_nodes(), and the adjacency is symmetric.
C16_AllNodesCompleteAndSymmetric ==
    /\ \A e \in edges : e[1] \in get_all_nodes /\ e[2] \in get_all_nodes
    /\ DOMAIN resources \subseteq get_all_nodes
    /\ AdjacencySymmetric

\* The records the strategy named by the call can return for its arguments,
\* with a cache newly filled from the network for the informed ones.
RecordsOf(c) ==
    IF c.algorithm = "flooding"
      THEN {flooding(c.start_node, c.resource, c.ttl, lst) : lst \in Perms(NodeIds)}
    ELSE IF c.algorithm = "informed_flooding"
      THEN {informed_flooding(FALSE, NewCache, c.start_node, c.resource, c.ttl, lst).ret :
              lst \in Perms(NodeIds)}
    ELSE IF c.algorithm = "random_walk"
      THEN {random_walk(c.start_node, c.resource, c.ttl, rnd) : rnd \in Draws}
    ELSE IF c.algorithm = "informed_random_walk"
      THEN {informed_random_walk(FALSE, NewCache, c.start_node, c.resource, c.ttl, rnd).ret :
              rnd \in Draws}
    ELSE {}

\* C17: run_search with an identifier other than the four strategy names
\* raises, calls no strategy and returns no record; with one of the four it
\* does not raise, calls that strategy and returns a record of that strategy
\* for the start node, resource and TTL given.
C17_RunSearchDispatch ==
    ~Idle =>
        IF call.algorithm \in Strategies
          THEN /\ ~result.raised
               /\ result.ran = call.algorithm
               /\ result.ret \in RecordsOf(call)
          ELSE /\ result.raised
               /\ result.ran = "none"
               /\ result.ret = <<>>

\* run_search was given an identifier it does not know, with a start node
\* that holds the resource.
C17_Witness ==
    /\ ~Idle
    /\ call.algorithm \notin Strategies
    /\ result.raised
    /\ has_resource(call.start_node, call.resource)

\* run_search ran an informed flooding that found the resource with messages.
C17_WitnessRecord ==
    /\ call.algorithm = "informed_flooding"
    /\ ~result.raised
    /\ result.ret.found
    /\ result.ret.messages > 1

\* C18: a call of any of the four strategies, with any TTL and resource,
\* whose start node is in the network, has no neighbour and does not hold the
\* resource returns found = false, messages = 0, nodes_visited = 1 and
\* path = [start].
C18_IsolatedStartRecord ==
    (/\ call.algorithm \in Strategies
     /\ StartKnown
     /\ get_neighbors(call.start_node) = {}
     /\ ~has_resource(call.start_node, call.resource))
        => /\ ~result.found
           /\ result.messages = 0
           /\ result.nodes_visited = 1
           /\ result.path = <<call.start_node>>

\* An informed walk with budget left began at a node without neighbours that
\* does not hold the resource, in a network where another node holds it.
C18_Witness ==
    /\ call.algorithm = "informed_random_walk"
    /\ StartKnown
    /\ get_neighbors(call.start_node) = {}
    /\ ~has_resource(call.start_node, call.resource)
    /\ call.ttl = MaxTTL
    /\ \E n \in DOMAIN resources : has_resource(n, call.resource)

\* The same for flooding, in a network that has edges elsewhere.
C18_WitnessFlooding ==
    /\ call.algorithm = "flooding"
    /\ StartKnown
    /\ get_neighbors(call.start_node) = {}
    /\ ~has_resource(call.start_node, call.resource)
    /\ call.ttl > 0
    /\ edges # {}

\* The call is a flooding from A for y with budget 3 on the ring.
RingCall ==
    /\ resources = RingResources
    /\ edges = RingEdges
    /\ call.algorithm = "flooding"
    /\ call.start_node = "A"
    /\ call.resource = "y"
    /\ call.ttl = 3

\* C19: on the ring, flooding from A for y with TTL 3 returns found = true
\* with path A, B, C or A, D, C and between 2 and 4 messages, whatever the
\* iteration order of the neighbour sets.
C19_RingFloodingFindsY ==
    RingCall =>
        /\ result.found
        /\ result.path \in {<<"A", "B", "C">>, <<"A", "D", "C">>}
        /\ result.messages \in 2..4

\* The ring call in which a neighbour of A sent its first message back to A:
\* 4 messages.
C19_Witness ==
    /\ RingCall
    /\ order["A"] = <<"D", "B">>
    /\ result.messages = 4

\* The ring call that found y with its third message.
C19_WitnessThree ==
    /\ RingCall
    /\ result.messages = 3
    /\ result.path = <<"A", "D", "C">>

\* The elements of a list, as a set.
SetOf(seq) == {seq[i] : i \in 1..Len(seq)}

\* C20: when flooding returns found = false for a start node of the network,
\* path and all_visited hold exactly the nodes at hop distance <= ttl from
\* the start, and nodes_visited is their number; on the ring, from A for z
\* with TTL 2, nodes_visited = 4 and all_visited = {A, B, C, D}.
C20_NotFoundReportsTheBall ==
    /\ (call.algorithm = "flooding" /\ StartKnown /\ ~result.found) =>
          /\ SetOf(result.path) = Ball(call.start_node, call.ttl)
          /\ SetOf(result.all_visited) = Ball(call.start_node, call.ttl)
          /\ result.nodes_visited = Cardinality(Ball(call.start_node, call.ttl))
    /\ (/\ resources = RingResources
        /\ edges = RingEdges
        /\ call.algorithm = "flooding"
        /\ call.start_node = "A"
        /\ call.resource = "z"
        /\ call.ttl = 2) =>
          /\ ~result.found
          /\ result.nodes_visited = 4
          /\ SetOf(result.all_visited) = {"A", "B", "C", "D"}

\* The ring call from A for z with TTL 2 has returned.
C20_Witness ==
    /\ resources = RingResources
    /\ edges = RingEdges
    /\ call.algorithm = "flooding"
    /\ call.start_node = "A"
    /\ call.resource = "z"
    /\ call.ttl = 2
    /\ Len(result.path) = 4

\* A flooding that did not find the resource and whose budget left part of
\* the network unvisited.
C20_WitnessPartial ==
    /\ call.algorithm = "flooding"
    /\ StartKnown
    /\ ~result.found
    /\ call.ttl = 1
    /\ result.nodes_visited = 2
    /\ Cardinality(DOMAIN graph) = 3
    /\ \A n \in DOMAIN graph : graph[n] # {}

\* C21 as claimed: in every expansion of informed_flooding a neighbour gets a
\* message, billed as one, exactly when the cache at the start of the
\* expansion does not record it negative and not positive.
C21_MessageIffEligible ==
    call.algorithm = "informed_flooding" =>
        /\ ~probes.ineligible
        /\ ~probes.omitted
        /\ ~probes.omitted_on_find
        /\ result.messages = probes.sent

\* C21 amended: a message, billed as one, goes only to such neighbours, and
\* to every one of them in an expansion that runs through its neighbour
\* list; the expansion that finds the resource returns at once and may leave
\* the neighbours enumerated after the holder without a message.
C21_MessageIffEligibleUntilFound ==
    call.algorithm = "informed_flooding" =>
        /\ ~probes.ineligible
        /\ ~probes.omitted
        /\ result.messages = probes.sent
        /\ probes.omitted_on_find => result.found

\* An informed flooding on a supplied cache left out a neighbour of the start
\* node recorded negative, sent a message to one recorded both negative and
\* positive, and went on to a second expansion.
C21_Witness ==
    /\ call.algorithm = "informed_flooding"
    /\ call.cache_given
    /\ StartKnown
    /\ result.messages > 1
    /\ result.messages < flooding(call.start_node, call.resource, call.ttl, <<>>).messages
    /\ \E n \in get_neighbors(call.start_node) :
          has_negative(entry, n, call.resource) /\ ~has(entry, n, call.resource)
    /\ \E n \in get_neighbors(call.start_node) :
          has_negative(entry, n, call.resource) /\ has(entry, n, call.resource)

\* The expansion that found the resource left a neighbour without a message.
C21_WitnessFound ==
    /\ call.algorithm = "informed_flooding"
    /\ result.found
    /\ probes.omitted_on_find

\* C22: an informed walk from a start node of the network that lacks the
\* resource returns found = false only with messages = ttl or at a node
\* without neighbours, whatever the cache records; and no step goes to a
\* neighbour recorded negative and not positive while another neighbour of
\* the current node is not recorded so.
C22_WalkNeverStuckOnNegatives ==
    call.algorithm = "informed_random_walk" =>
        /\ (StartKnown /\ ~has_resource(call.start_node, call.resource) /\ ~result.found)
              => \/ result.messages = call.ttl
                 \/ get_neighbors(result.path[Len(result.path)]) = {}
        /\ ~probes.ineligible

\* A walk on a supplied cache that records every neighbour of the start node
\* negative used its whole budget of two steps without finding the resource.
C22_Witness ==
    /\ call.algorithm = "informed_random_walk"
    /\ call.cache_given
    /\ StartKnown
    /\ get_neighbors(call.start_node) # {}
    /\ \A n \in get_neighbors(call.start_node) :
          has_negative(entry, n, call.resource) /\ ~has(entry, n, call.resource)
    /\ ~result.found
    /\ call.ttl = 2
    /\ result.messages = 2

\* A walk stepped to a neighbour recorded positive while the other neighbour
\* of its start node was recorded negative only.
C22_WitnessEligible ==
    /\ call.algorithm = "informed_random_walk"
    /\ call.cache_given
    /\ StartKnown
    /\ result.messages >= 1
    /\ \E n \in get_neighbors(call.start_node) :
          has_negative(entry, n, call.resource) /\ ~has(entry, n, call.resource)
    /\ Len(result.path) >= 2
    /\ has(entry, result.path[2], call.resource)
    /\ ~has_resource(call.start_node, call.resource)
    /\ ~has(entry, call.start_node, call.resource)

\* The sum of the degrees of the nodes of S.
RECURSIVE DegreeSum(_)
DegreeSum(S) ==
    IF S = {} THEN 0
    ELSE LET n == CHOOSE m \in S : TRUE
         IN  get_degree(n) + DegreeSum(S \ {n})

\* The nodes at hop distance < k from node s.
Within(s, k) == IF k = 0 THEN {} ELSE Ball(s, k - 1)

\* C23: when flooding returns found = false for a start node of the network,
\* messages is the sum of the degrees of the nodes at hop distance < ttl from
\* the start: contacts to neighbours already visited are billed too.
C23_MessagesAreDegreeSum ==
    (call.algorithm = "flooding" /\ StartKnown /\ ~result.found) =>
        result.messages = DegreeSum(Within(call.start_node, call.ttl))

\* A flooding that did not find the resource billed more messages than the
\* network has nodes.
C23_Witness ==
    /\ call.algorithm = "flooding"
    /\ StartKnown
    /\ ~result.found
    /\ result.messages > Cardinality(DOMAIN graph)
    /\ result.messages > result.nodes_visited

\* The least k <= bound such that a node at hop distance <= k from s holds
\* resource r; bound + 1 if there is none.
RECURSIVE DistanceToHolder(_, _, _, _)
DistanceToHolder(s, r, k, bound) ==
    IF k > bound THEN k
    ELSE IF \E n \in Ball(s, k) : Holds(n, r) THEN k
    ELSE DistanceToHolder(s, r, k + 1, bound)

C25_CallsAreBounded ==
    /\ call.algorithm \in {"flooding", "informed_flooding"} =>
          ~probes.requeued /\ ~probes.reexpanded
    /\ call.algorithm \in {"random_walk", "informed_random_walk"} =>
          /\ result.messages <= call.ttl
          /\ Len(result.path) <= call.ttl + 1

\* An informed flooding on the ring, with a budget that reaches round it,
\* expanded all four nodes without finding the resource.
C25_Witness ==
    /\ call.algorithm = "informed_flooding"
    /\ edges = RingEdges
    /\ call.ttl = MaxTTL + 1
    /\ ~result.found
    /\ result.nodes_visited = 4
    /\ result.messages >= 4

\* A plain flooding did the same and billed every contact.
C25_WitnessFlooding ==
    /\ call.algorithm = "flooding"
    /\ edges = RingEdges
    /\ call.ttl = MaxTTL + 1
    /\ ~result.found
    /\ result.messages = 8

\* A walk on a network with a cycle used its whole budget.
C25_WitnessWalk ==
    /\ call.algorithm = "random_walk"
    /\ Cardinality(edges) >= 3
    /\ call.ttl = MaxTTL + 1
    /\ result.messages = MaxTTL + 1

\* The informed call was given no cache, or the cache as update_from_network
\* leaves an empty one.
FreshlySeeded == ~call.cache_given \/ entry = update_from_network(NewCache)

\* C26: informed_flooding without a cache, or with a cache newly seeded from
\* the network, returns the found, the nodes_visited and, when found, the
\* path that flooding returns for the same network, start node, resource,
\* TTL and iteration orders, and no more messages than flooding.
C26_InformedFloodingMatchesFlooding ==
    (call.algorithm = "informed_flooding" /\ FreshlySeeded) =>
        \A lst \in Perms(NodeIds) :
            LET plain == flooding(call.start_node, call.resource, call.ttl, lst)
            IN  /\ result.found = plain.found
                /\ result.nodes_visited = plain.nodes_visited
                /\ result.found => result.path = plain.path
                /\ result.messages <= plain.messages

\* An informed flooding on a newly seeded cache that the caller passed found
\* the resource two hops away, after a message back to the start node.
C26_Witness ==
    /\ call.algorithm = "informed_flooding"
    /\ call.cache_given
    /\ entry = update_from_network(NewCache)
    /\ result.found
    /\ Len(result.path) = 3
    /\ result.messages = 3

\* An informed flooding without a cache did not find the resource and sent
\* fewer messages than flooding.
C26_WitnessNoCache ==
    /\ call.algorithm = "informed_flooding"
    /\ ~call.cache_given
    /\ ~result.found
    /\ result.nodes_visited = 3
    /\ result.messages <
          flooding(call.start_node, call.resource, call.ttl, <<>>).messages

\* C27 as claimed: when informed_flooding on the cache the caller passed has
\* returned found = true, the same call made again at once, on the cache as
\* the first call left it, returns found = true.
C27_RepeatedSearchSucceeds ==
    (call.algorithm = "informed_flooding" /\ call.cache_given /\ result.found) =>
        \A lst \in Perms(NodeIds) :
            informed_flooding(TRUE, cache, call.start_node, call.resource,
                              call.ttl, lst).ret.found

\* C27 amended: the repeated call returns found = true when the first call
\* found the resource at the start node or at a neighbour of it (a path of
\* at most two nodes); a holder further away was reached through nodes that
\* the first call recorded negative, which the repeated call leaves out.
C27_RepeatedSearchSucceedsNearby ==
    (/\ call.algorithm = "informed_flooding"
     /\ call.cache_given
     /\ result.found
     /\ Len(result.path) <= 2) =>
        \A lst \in Perms(NodeIds) :
            informed_flooding(TRUE, cache, call.start_node, call.resource,
                              call.ttl, lst).ret.found

\* The first call found the resource at a neighbour of the start node after
\* a message to another neighbour, which it recorded negative.
C27_Witness ==
    /\ call.algorithm = "informed_flooding"
    /\ call.cache_given
    /\ result.found
    /\ Len(result.path) = 2
    /\ result.messages = 2
    /\ \E n \in get_neighbors(call.start_node) :
          has_negative(cache, n, call.resource) /\ ~has_negative(entry, n, call.resource)

\* C28 as claimed: for all four strategies, and whatever the cache passed to
\* the informed ones holds, found = true implies that path is not empty,
\* begins with the start node and ends with a node that holds the resource.
C28_FoundPathEndsAtHolder ==
    (call.algorithm \in Strategies /\ result.found) =>
        /\ result.path # <<>>
        /\ result.path[1] = call.start_node
        /\ has_resource(result.path[Len(result.path)], call.resource)

\* C29: an informed_flooding or informed_random_walk call for resource r on
\* the cache the caller passed leaves has and has_negative of every node as
\* they were for every other resource; a call whose start node is not in the
\* network leaves the cache as it was.
C29_CacheFrameOtherResources ==
    (call.algorithm \in {"informed_flooding", "informed_random_walk"} /\ call.cache_given) =>
        /\ \A n \in NodeIds, r \in ResourceIds \ {call.resource} :
              /\ has(cache, n, r) = has(entry, n, r)
              /\ has_negative(cache, n, r) = has_negative(entry, n, r)
        /\ ~StartKnown => cache = entry

\* An informed call wrote records of its resource into a cache that held a
\* positive and a negative record of the other resource.
C29_Witness ==
    /\ call.algorithm \in {"informed_flooding", "informed_random_walk"}
    /\ call.cache_given
    /\ cache # entry
    /\ \E n \in NodeIds : has_negative(cache, n, call.resource)
                          /\ ~has_negative(entry, n, call.resource)
    /\ \E n \in NodeIds, r \in ResourceIds \ {call.resource} : has(entry, n, r)
    /\ \E n \in NodeIds, r \in ResourceIds \ {call.resource} : has_negative(entry, n, r)

\* An informed call from a start node that is not in the network was passed
\* a cache with records.
C29_WitnessUnknownStart ==
    /\ call.algorithm \in {"informed_flooding", "informed_random_walk"}
    /\ call.cache_given
    /\ ~StartKnown
    /\ entry # NewCache

\* The cache the informed call worked on when it began: the one passed, or
\* a new one filled from the network.
CacheAtEntry == IF call.cache_given THEN entry ELSE update_from_network(NewCache)

NoNegativeAtEntry == \A n \in NodeIds : ~has_negative(CacheAtEntry, n, call.resource)

\* C30 as claimed: an informed_flooding call whose cache holds no negative
\* record of the resource at entry returns
\* messages <= (nodes_visited - 1) + degree(start).
C30_MessagesWithinVisitedPlusDegree ==
    (call.algorithm = "informed_flooding" /\ NoNegativeAtEntry) =>
        result.messages <= (result.nodes_visited - 1) + get_degree(call.start_node)

\* C30 amended: the bound holds for a start node of the network and a cache
\* that at entry holds no negative record of the resource and no positive
\* record of it for a node that lacks it.
C30_MessagesWithinVisitedPlusDegreeTruthful ==
    (/\ call.algorithm = "informed_flooding"
     /\ StartKnown
     /\ NoNegativeAtEntry
     /\ \A n \in NodeIds :
           has(CacheAtEntry, n, call.resource) => has_resource(n, call.resource))
        => result.messages <= (result.nodes_visited - 1) + get_degree(call.start_node)

\* An informed flooding on a cache without records of the resource reached
\* the bound: every neighbour of the start node sent a message back to it.
C30_Witness ==
    /\ call.algorithm = "informed_flooding"
    /\ call.cache_given
    /\ StartKnown
    /\ \A n \in NodeIds : ~has_negative(entry, n, call.resource)
                          /\ ~has(entry, n, call.resource)
    /\ get_degree(call.start_node) = 2
    /\ result.messages = (result.nodes_visited - 1) + get_degree(call.start_node)
    /\ result.messages = 4
====
